---- MODULE Spec2Model ----
(***************************************************************************)
(* Movie-Rater-Express: the relational store (movies, ratings), the        *)
(* persistence layer DatabaseStorage and the four Express handlers that    *)
(* registerRoutes installs, as a state machine.  Every SQL statement is    *)
(* one atomic step; a handler is suspended between the statements it       *)
(* awaits, so handlers of different requests interleave at those points.   *)
(* Numbers that may carry one decimal (JSON numbers, averages) are kept    *)
(* in tenths: 3.5 is 35, 4.3 is 43.  Columns of type integer are plain     *)
(* integers.                                                               *)
(***************************************************************************)
EXTENDS Integers, Sequences, FiniteSets, TLC

\* Number of requests the clients send (numbered in order of arrival).
NumReq == 2
\* Calendar year when the server starts, and how many new years it lives through.
BaseYear == 2025
MaxYearAdvance == 1
\* Number of ratings a movie has received from clients before the requests
\* that are looked at.
MaxExtra == 2
\* Number of server processes started on the one database.
NumProc == 2

Req == 1..NumReq
\* the server processes; the clients talk to the first
Proc == 1..NumProc
Serving == 1

(***************************************************************************)
(* JavaScript values as they arrive in a JSON body or a path parameter.    *)
(* A string is spelled out as its characters where Number() parses it.     *)
(***************************************************************************)
JsNum(t) == [k |-> "number", t |-> t, s |-> ""]
JsStr(s) == [k |-> "string", t |-> 0, s |-> s]
JsTrue == [k |-> "boolean", t |-> 1, s |-> ""]
JsNull == [k |-> "null", t |-> 0, s |-> ""]
JsUndefined == [k |-> "undefined", t |-> 0, s |-> ""]

\* the characters of the string literals that occur as inputs
Spelling(s) ==
    CASE s = ""      -> <<>>
      [] s = "1"     -> <<"1">>
      [] s = "2"     -> <<"2">>
      [] s = "3"     -> <<"3">>
      [] s = "11"    -> <<"1", "1">>
      [] s = "1.5"   -> <<"1", ".", "5">>
      [] s = "-1"    -> <<"-", "1">>
      [] s = "abc"   -> <<"a", "b", "c">>
      [] s = "great" -> <<"g", "r", "e", "a", "t">>
      [] s = "not a year" -> <<"n", "o", "t", " ", "a", " ", "y", "e", "a", "r">>

\* The result of Number(): NaN, or a finite number in tenths.
NaN == [nan |-> TRUE, t |-> 0]
Finite(t) == [nan |-> FALSE, t |-> t]

Digits == <<"0", "1", "2", "3", "4", "5", "6", "7", "8", "9">>
IsDigit(c) == \E i \in 1..10 : Digits[i] = c
DigitVal(c) == (CHOOSE i \in 1..10 : Digits[i] = c) - 1

RECURSIVE DigitsVal(_)
DigitsVal(cs) ==
    IF cs = <<>> THEN 0
    ELSE 10 * DigitsVal(SubSeq(cs, 1, Len(cs) - 1)) + DigitVal(cs[Len(cs)])

AllDigits(cs) == cs # <<>> /\ \A i \in 1..Len(cs) : IsDigit(cs[i])

\* StringToNumber of the characters cs, for unsigned decimal literals with at
\* most one fractional digit ("", "7", "11", "1.5"); anything else is NaN.
UnsignedToNumber(cs) ==
    IF AllDigits(cs) THEN Finite(10 * DigitsVal(cs))
    ELSE IF /\ Len(cs) >= 3
            /\ cs[Len(cs) - 1] = "."
            /\ AllDigits(SubSeq(cs, 1, Len(cs) - 2))
            /\ IsDigit(cs[Len(cs)])
         THEN Finite(10 * DigitsVal(SubSeq(cs, 1, Len(cs) - 2)) + DigitVal(cs[Len(cs)]))
         ELSE NaN

StringToNumber(cs) ==
    IF cs = <<>> THEN Finite(0)
    ELSE IF cs[1] = "-"
         THEN LET u == UnsignedToNumber(Tail(cs))
              IN  IF u.nan THEN NaN ELSE Finite(0 - u.t)
         ELSE UnsignedToNumber(cs)

\* Number(v): the numeric coercion the handlers apply to ids, scores and years.
ToNumber(v) ==
    CASE v.k = "number"    -> Finite(v.t)
      [] v.k = "string"    -> StringToNumber(Spelling(v.s))
      [] v.k = "boolean"   -> Finite(10 * v.t)
      [] v.k = "null"      -> Finite(0)
      [] v.k = "undefined" -> NaN

\* Number.isInteger(n)
IsInteger(n) == ~n.nan /\ n.t % 10 = 0

(***************************************************************************)
(* The store: two append-only tables.  A serial id is the row's position.  *)
(***************************************************************************)
VARIABLES
    movies,       \* table movies: sequence of [id, title, year, genre, createdAt]
    ratings,      \* table ratings: sequence of [id, movieId, score, createdAt]
    now,          \* the store's clock, the value of defaultNow()
    currentYear,  \* new Date().getFullYear()
    seed,         \* the seedMovies call of each process's registerRoutes:
                  \* Proc -> [pc, all, calls, seen]
    req           \* the requests: Req -> record (see IdleReq)

vars == <<movies, ratings, now, currentYear, seed, req>>

RECURSIVE SumSeq(_)
SumSeq(s) == IF s = <<>> THEN 0 ELSE s[1] + SumSeq(Tail(s))

RECURSIVE SelectSeqBy(_, _)
\* the rows of table rs whose movieId is mid, in table order
SelectSeqBy(rs, mid) ==
    IF rs = <<>> THEN <<>>
    ELSE IF rs[1].movieId = mid
         THEN <<rs[1]>> \o SelectSeqBy(Tail(rs), mid)
         ELSE SelectSeqBy(Tail(rs), mid)

ScoresOf(rows) == [i \in 1..Len(rows) |-> rows[i].score]


(***************************************************************************)
(* Aggregates.                                                             *)
(***************************************************************************)
\* Math.round(x) of the positive rational num/den: the nearest integer, halves up.
MathRound(num, den) == (2 * num + den) \div (2 * den)

\* JsAverage with Math.floor for Math.round
JsAverage_Floor(scores) ==
    IF Len(scores) > 0 THEN (10 * SumSeq(scores)) \div Len(scores) ELSE 0

\* routes.ts: Math.round((sum / length) * 10) / 10, or 0 for no scores; in tenths.
JsAverage(scores) ==
    IF Len(scores) > 0 THEN MathRound(10 * SumSeq(scores), Len(scores)) ELSE 0

\* SqlRoundAvg rounding halves to the even digit, as round() of a double does
SqlRoundAvg_HalfEven(scores) ==
    IF Len(scores) = 0 THEN [null |-> TRUE, t |-> 0]
    ELSE LET n    == Len(scores)
             num  == 10 * SumSeq(scores)
             down == num \div n
         IN  [null |-> FALSE,
              t |-> IF 2 * (num % n) > n \/ (2 * (num % n) = n /\ down % 2 = 1)
                    THEN down + 1 ELSE down]

\* SQL ROUND(AVG(score)::numeric, 1) over the rows: NULL for no rows, else AVG as a
\* numeric with six fractional digits carried, rounded half away from zero to one.
SqlRoundAvg(scores) ==
    IF Len(scores) = 0 THEN [null |-> TRUE, t |-> 0]
    ELSE LET n   == Len(scores)
             avg == (SumSeq(scores) * 1000000 + (n \div 2)) \div n
         IN  [null |-> FALSE, t |-> (avg + 50000) \div 100000]

\* SqlCount for COUNT(*): the row a left join makes for a movie without ratings
\* is counted
SqlCount_Star(rows) == IF Len(rows) = 0 THEN 1 ELSE Len(rows)

\* SQL COUNT(ratings.id)::int
SqlCount(rows) == Len(rows)

\* Number(x) of a numeric column the driver hands over as text; Number(null) is 0.
NumberOfSql(x) == IF x.null THEN 0 ELSE x.t

\* SQL COALESCE(x, d)
SqlCoalesce(x, d) == IF x.null THEN [null |-> FALSE, t |-> d] ELSE x

(***************************************************************************)
(* Rows and statements of the persistence layer.                           *)
(***************************************************************************)
NoMovie == [id |-> 0, title |-> "", year |-> 0, genre |-> "", createdAt |-> 0]

MovieRow(id, data, t) ==
    [id |-> id, title |-> data.title, year |-> data.year, genre |-> data.genre,
     createdAt |-> t]

RatingRow(id, movieId, score, t) ==
    [id |-> id, movieId |-> movieId, score |-> score, createdAt |-> t]

\* the id of a row to insert: the one the values name, if they name one, else the
\* next of the serial column
IdToInsert(data, serial) ==
    IF "id" \in DOMAIN data /\ data.id.k = "number" THEN data.id.t \div 10 ELSE serial

\* db.insert(movies).values(datas): one statement, one timestamp, serial ids
InsertMovies(tbl, datas, t) ==
    tbl \o [i \in 1..Len(datas) |->
               MovieRow(IdToInsert(datas[i], Len(tbl) + i), datas[i], t)]

\* InsertRatings as an upsert on the movie: a rating of the movie that was rated
\* last takes the place of that rating
InsertRatings_Upsert(tbl, vals, t) ==
    IF tbl # <<>> /\ Len(vals) = 1 /\ tbl[Len(tbl)].movieId = vals[1].movieId
    THEN [tbl EXCEPT ![Len(tbl)] = RatingRow(Len(tbl), vals[1].movieId, vals[1].score, t)]
    ELSE tbl \o [i \in 1..Len(vals) |->
                   RatingRow(Len(tbl) + i, vals[i].movieId, vals[i].score, t)]

\* InsertRatings as an upsert that stamps the movie's earlier ratings anew
InsertRatings_Restamp(tbl, vals, t) ==
    [i \in 1..Len(tbl) |->
        IF \E k \in 1..Len(vals) : vals[k].movieId = tbl[i].movieId
        THEN [tbl[i] EXCEPT !.createdAt = t] ELSE tbl[i]]
    \o [i \in 1..Len(vals) |-> RatingRow(Len(tbl) + i, vals[i].movieId, vals[i].score, t)]

\* db.insert(ratings).values(vals): one statement, one timestamp, serial ids
InsertRatings(tbl, vals, t) ==
    tbl \o [i \in 1..Len(vals) |-> RatingRow(Len(tbl) + i, vals[i].movieId, vals[i].score, t)]

\* the time an insert statement of a request stamps its rows with: the clock may
\* or may not have advanced since the last insert of another request
StampTimes == {now, now + 1}
\* the same when no two statements share a timestamp
LaterTime == {now + 1}

\* GetMovieById without its WHERE clause: the first row of the table
GetMovieById_First(id) ==
    IF Len(movies) > 0 THEN [found |-> TRUE, row |-> movies[1]]
    ELSE [found |-> FALSE, row |-> NoMovie]

\* getMovieById: select * from movies where id = $1; result[0] || undefined
GetMovieById(id) ==
    IF \E i \in 1..Len(movies) : movies[i].id = id
    THEN [found |-> TRUE, row |-> movies[CHOOSE i \in 1..Len(movies) : movies[i].id = id]]
    ELSE [found |-> FALSE, row |-> NoMovie]

\* ratings.movie_id references movies.id: an insert of a rating for an id that
\* no movie has fails
ForeignKeyHolds(movieId) == \E i \in 1..Len(movies) : movies[i].id = movieId

\* the integer column movies.id accepts only an integer parameter
IsIntegerParam(n) == n.t % 10 = 0

\* ORDER BY created_at DESC leaves rows of equal created_at in either order
TieOrders == {"idAsc", "idDesc"}

\* NewestFirst for ORDER BY created_at ASC
NewestFirst_Ascending(tie, a, b) ==
    \/ a.createdAt < b.createdAt
    \/ /\ a.createdAt = b.createdAt
       /\ IF tie = "idAsc" THEN a.id < b.id ELSE a.id > b.id

\* a precedes b under ORDER BY created_at DESC, ties broken as tie says
NewestFirst(tie, a, b) ==
    \/ a.createdAt > b.createdAt
    \/ /\ a.createdAt = b.createdAt
       /\ IF tie = "idAsc" THEN a.id < b.id ELSE a.id > b.id

RECURSIVE InsertNewestFirst(_, _, _)
\* row put into the sorted sequence before the first element it precedes
InsertNewestFirst(row, sorted, tie) ==
    IF sorted = <<>> THEN <<row>>
    ELSE IF NewestFirst(tie, row, sorted[1]) THEN <<row>> \o sorted
         ELSE <<sorted[1]>> \o InsertNewestFirst(row, Tail(sorted), tie)

RECURSIVE SortNewestFirst(_, _)
SortNewestFirst(rows, tie) ==
    IF rows = <<>> THEN <<>>
    ELSE InsertNewestFirst(rows[1], SortNewestFirst(Tail(rows), tie), tie)

\* the ids of the rows getRatingsForMovie returns the scores of, in its order
RatingIdsNewestFirst(movieId, tie) ==
    LET rows == SortNewestFirst(SelectSeqBy(ratings, movieId), tie)
    IN  [i \in 1..Len(rows) |-> rows[i].id]

\* getRatingsForMovie: select score from ratings where movie_id = $1
\* order by created_at desc
GetRatingsForMovie(movieId, tie) ==
    ScoresOf(SortNewestFirst(SelectSeqBy(ratings, movieId), tie))

\* SelectAggregate without its WHERE clause: the aggregate of the whole table
SelectAggregate_AllRows(tbl, movieId) ==
    [avgRating    |-> NumberOfSql(SqlRoundAvg(ScoresOf(tbl))),
     totalRatings |-> SqlCount(tbl)]

\* addRating, second statement: select round(avg(score)::numeric, 1), count(id)::int
\* from ratings where movie_id = $1, read on the table tbl
SelectAggregate(tbl, movieId) ==
    LET rows == SelectSeqBy(tbl, movieId)
    IN  [avgRating    |-> NumberOfSql(SqlRoundAvg(ScoresOf(rows))),
         totalRatings |-> SqlCount(rows)]

(***************************************************************************)
(* seedMovies                                                              *)
(***************************************************************************)
seedData ==
    << [title |-> "The Godfather", year |-> 1972, genre |-> "Crime"],
       [title |-> "Pulp Fiction", year |-> 1994, genre |-> "Crime"],
       [title |-> "The Shawshank Redemption", year |-> 1994, genre |-> "Drama"],
       [title |-> "Schindler's List", year |-> 1993, genre |-> "Drama"],
       [title |-> "2001: A Space Odyssey", year |-> 1968, genre |-> "Sci-Fi"],
       [title |-> "Blade Runner", year |-> 1982, genre |-> "Sci-Fi"],
       [title |-> "Chinatown", year |-> 1974, genre |-> "Thriller"],
       [title |-> "Mulholland Drive", year |-> 2001, genre |-> "Thriller"],
       [title |-> "Singin' in the Rain", year |-> 1952, genre |-> "Musical"],
       [title |-> "Sunset Boulevard", year |-> 1950, genre |-> "Drama"] >>

\* sampleRatings: for each rating, the index into allMovies (0-based) and the score
sampleSlots ==
    << <<0, 5>>, <<0, 5>>, <<0, 4>>, <<1, 4>>, <<1, 5>>, <<2, 5>>, <<2, 5>>, <<2, 5>>,
       <<3, 5>>, <<3, 4>>, <<4, 4>>, <<4, 3>>, <<5, 4>>, <<5, 4>>, <<5, 5>>, <<6, 3>>,
       <<7, 4>>, <<7, 3>>, <<8, 5>>, <<8, 4>>, <<8, 5>>, <<9, 4>>, <<9, 3>> >>

sampleRatings(allMovies) ==
    [i \in 1..Len(sampleSlots) |->
        [movieId |-> allMovies[sampleSlots[i][1] + 1].id, score |-> sampleSlots[i][2]]]

\* db.select().from(movies) has no ORDER BY: the rows come in table order or, as SQL
\* leaves the order open, in another one (here: the reverse)
ScanOrders(tbl) == {tbl, [i \in 1..Len(tbl) |-> tbl[Len(tbl) + 1 - i]]}

\* calls, seen and failedAt are history: how often the process called seedMovies,
\* how many movies the store held when the call looked, and the statement at
\* which the call stopped
SeedIdle == [pc |-> "check", all |-> <<>>, calls |-> 0, seen |-> 0, failedAt |-> ""]

\* a statement of seedMovies fails: the promise rejects, registerRoutes rejects
SeedThrows(p) ==
    /\ seed[p].pc \in {"check", "insertMovies", "selectAll", "insertRatings"}
    /\ seed' = [seed EXCEPT ![p].pc = "failed", ![p].all = <<>>,
                            ![p].calls = IF seed[p].pc = "check" THEN 1 ELSE @,
                            ![p].failedAt = seed[p].pc]
    /\ UNCHANGED <<movies, ratings, now, currentYear, req>>

\* SeedCheck looking for a rating where it looks for a movie
SeedCheck_AnyRating(p) ==
    /\ seed[p].pc = "check"
    /\ seed' = [seed EXCEPT ![p].pc = IF Len(ratings) > 0 THEN "done" ELSE "insertMovies",
                            ![p].calls = 1, ![p].seen = Len(movies)]
    /\ UNCHANGED <<movies, ratings, now, currentYear, req>>

\* SeedCheck without if (existing.length > 0) return
SeedCheck_NoReturn(p) ==
    /\ seed[p].pc = "check"
    /\ seed' = [seed EXCEPT ![p].pc = "insertMovies", ![p].calls = 1,
                            ![p].seen = Len(movies)]
    /\ UNCHANGED <<movies, ratings, now, currentYear, req>>

\* select id from movies limit 1; if (existing.length > 0) return
SeedCheck(p) ==
    /\ seed[p].pc = "check"
    /\ seed' = [seed EXCEPT ![p].pc = IF Len(movies) > 0 THEN "done" ELSE "insertMovies",
                            ![p].calls = 1, ![p].seen = Len(movies)]
    /\ UNCHANGED <<movies, ratings, now, currentYear, req>>

\* await db.insert(movies).values(seedData); the statements of seedMovies follow
\* one another, each at a later time than the one before
SeedInsertMovies(p) ==
    /\ seed[p].pc = "insertMovies"
    /\ movies' = InsertMovies(movies, seedData, now + 1)
    /\ now' = now + 1
    /\ seed' = [seed EXCEPT ![p].pc = "selectAll"]
    /\ UNCHANGED <<ratings, currentYear, req>>

\* const allMovies = await db.select().from(movies)
SeedSelectAll(p) ==
    /\ seed[p].pc = "selectAll"
    /\ \E all \in ScanOrders(movies) :
          seed' = [seed EXCEPT ![p].pc = "insertRatings", ![p].all = all]
    /\ UNCHANGED <<movies, ratings, now, currentYear, req>>

\* await db.insert(ratings).values(sampleRatings)
SeedInsertRatings(p) ==
    /\ seed[p].pc = "insertRatings"
    /\ ratings' = InsertRatings(ratings, sampleRatings(seed[p].all), now + 1)
    /\ now' = now + 1
    /\ seed' = [seed EXCEPT ![p].pc = "done", ![p].all = <<>>]
    /\ UNCHANGED <<movies, currentYear, req>>

seedMovies(p) ==
    SeedCheck(p) \/ SeedInsertMovies(p) \/ SeedSelectAll(p) \/ SeedInsertRatings(p)


(***************************************************************************)
(* getAllMovies                                                            *)
(***************************************************************************)
\* the titles that occur, in the ascending order of the store's collation
Collation ==
    << "", "2001: A Space Odyssey", "Blade Runner", "Casablanca", "Chinatown",
       "Mulholland Drive", "Pulp Fiction", "Schindler's List", "Singin' in the Rain",
       "Sunset Boulevard", "The Godfather", "The Shawshank Redemption" >>

TitleRank(title) == CHOOSE i \in 1..Len(Collation) : Collation[i] = title

\* a precedes b under ORDER BY title ASC, rows of equal title in either order
TitleAscending(tie, a, b) ==
    \/ TitleRank(a.title) < TitleRank(b.title)
    \/ /\ a.title = b.title
       /\ IF tie = "idAsc" THEN a.id < b.id ELSE a.id > b.id

RECURSIVE InsertByTitle(_, _, _)
InsertByTitle(row, sorted, tie) ==
    IF sorted = <<>> THEN <<row>>
    ELSE IF TitleAscending(tie, row, sorted[1]) THEN <<row>> \o sorted
         ELSE <<sorted[1]>> \o InsertByTitle(row, Tail(sorted), tie)

RECURSIVE SortByTitle(_, _)
SortByTitle(rows, tie) ==
    IF rows = <<>> THEN <<>>
    ELSE InsertByTitle(rows[1], SortByTitle(Tail(rows), tie), tie)

\* one group of movies LEFT JOIN ratings GROUP BY movies.id, with
\* COALESCE(ROUND(AVG(score)::numeric, 1), 0) and COUNT(ratings.id)::int,
\* mapped through Number()
MovieWithStats(m) ==
    LET scores == ScoresOf(SelectSeqBy(ratings, m.id))
    IN  [id |-> m.id, title |-> m.title, year |-> m.year, genre |-> m.genre,
         createdAt |-> m.createdAt,
         avgRating |-> NumberOfSql(SqlCoalesce(SqlRoundAvg(scores), 0)),
         totalRatings |-> SqlCount(scores)]

\* GetAllMovies with an inner join: only the movies that have a rating
GetAllMovies_InnerJoin(tie) ==
    LET Rated(m) == SelectSeqBy(ratings, m.id) # <<>>
        rated    == SelectSeq(movies, Rated)
    IN  SortByTitle([i \in 1..Len(rated) |-> MovieWithStats(rated[i])], tie)

\* GetAllMovies without its ORDER BY: the groups in table order
GetAllMovies_TableOrder(tie) == [i \in 1..Len(movies) |-> MovieWithStats(movies[i])]

\* getAllMovies: movies LEFT JOIN ratings GROUP BY movies.id ORDER BY title ASC
GetAllMovies(tie) ==
    SortByTitle([i \in 1..Len(movies) |-> MovieWithStats(movies[i])], tie)

(***************************************************************************)
(* Requests.  A request record holds what the client sent (ep, idParam,    *)
(* body), the handler's position and locals (pc, id, score, data, movie),  *)
(* the response (status, error and the payload fields) and a history part  *)
(* h that the handlers never read: the store operations called so far, why *)
(* one of them threw, and what the tables and the calendar were when the   *)
(* request touched them.                                                   *)
(***************************************************************************)
NoBody == [title |-> JsUndefined, year |-> JsUndefined, genre |-> JsUndefined,
           id |-> JsUndefined, director |-> JsUndefined, score |-> JsUndefined]
NoData == [title |-> "", year |-> 0, genre |-> ""]
NoHistory == [calls |-> {}, prior |-> 0, row |-> 0, readLen |-> 0, seen |-> 0, year |-> 0,
              fault |-> "", order |-> <<>>]

IdleReq ==
    [ep |-> "none", pc |-> "idle", idParam |-> "", body |-> NoBody,
     id |-> NaN, score |-> 0, data |-> NoData, movie |-> NoMovie,
     status |-> 0, error |-> "", avgRating |-> 0, totalRatings |-> 0,
     ratings |-> <<>>, list |-> <<>>, h |-> NoHistory]

ClosedReq == [IdleReq EXCEPT !.pc = "closed"]

\* Arrives with the routes registered before seedMovies is awaited
Arrives_BeforeSeed(r) ==
    /\ req[r].pc = "idle"
    /\ IF r = 1 THEN TRUE ELSE req[r - 1].pc # "idle"

\* the routes exist once registerRoutes is past await storage.seedMovies();
\* requests are numbered in their order of arrival
Arrives(r) ==
    /\ seed[Serving].pc = "done"
    /\ req[r].pc = "idle"
    /\ IF r = 1 THEN TRUE ELSE req[r - 1].pc # "idle"

\* res.status(status).json({ error })
Respond(q, status, error) ==
    [q EXCEPT !.pc = "done", !.status = status, !.error = error]

\* the message of the error a store operation throws
ErrorDetail(fault) ==
    CASE fault = "store" -> "Connection terminated unexpectedly"
      [] fault = "param" -> "invalid input syntax for type integer"

\* Fails with res.status(500).json({ error: err.message })
Fails_ErrMessage(q, error) ==
    [Respond(q, 500, ErrorDetail("store")) EXCEPT !.h.fault = "store"]

\* Fails with a catch that sends nothing and has the operation called again
Fails_Retry(q, error) == [q EXCEPT !.h.fault = "store"]

\* a store operation throws for a reason of the store's own (connection lost,
\* timeout): the handler's catch answers 500 with its fixed message
Fails(q, error) == [Respond(q, 500, error) EXCEPT !.h.fault = "store"]

\* a store operation throws because the statement refuses its parameter: the
\* same catch
Rejects(q, error) == [Respond(q, 500, error) EXCEPT !.h.fault = "param"]

Called(q, op) == [q EXCEPT !.h.calls = @ \cup {op}]

UnchangedStore == UNCHANGED <<movies, ratings, now>>
UnchangedEnv == UNCHANGED <<currentYear, seed>>

\* the response has been sent and the connection is gone
Close(r) ==
    /\ req[r].pc = "done"
    /\ req' = [req EXCEPT ![r] = ClosedReq]
    /\ UnchangedStore /\ UnchangedEnv

\* New Year's Eve
YearTick ==
    /\ currentYear < BaseYear + MaxYearAdvance
    /\ currentYear' = currentYear + 1
    /\ UNCHANGED <<movies, ratings, now, seed, req>>

(***************************************************************************)
(* GET /api/movies                                                         *)
(***************************************************************************)
ListRequest(r) ==
    /\ Arrives(r)
    /\ req' = [req EXCEPT ![r] = [IdleReq EXCEPT !.ep = "list", !.pc = "getAllMovies"]]
    /\ UnchangedStore /\ UnchangedEnv

\* const movies = await storage.getAllMovies(); res.json(movies)
ListGetAllMovies(r) ==
    /\ req[r].pc = "getAllMovies"
    /\ LET q == Called(req[r], "getAllMovies")
       IN  \/ req' = [req EXCEPT ![r] = Fails(q, "Failed to fetch movies")]
           \/ \E tie \in TieOrders :
                 req' = [req EXCEPT ![r] =
                           [Respond(q, 200, "") EXCEPT !.list = GetAllMovies(tie),
                                                       !.h.seen = Len(movies),
                                                       !.h.readLen = Len(ratings)]]
    /\ UnchangedStore /\ UnchangedEnv

(***************************************************************************)
(* POST /api/movies                                                        *)
(***************************************************************************)
MinYear == 1888

\* insertMovieSchema.parse(body): createInsertSchema(movies).omit({id, createdAt})
\* wants title and genre to be strings and year to be a number; the versions of
\* the generator differ in whether a number for an integer column must be an
\* integer (strictInt).  Unknown keys, id among them, are dropped.
InsertMovieSchemaAccepts(body, strictInt) ==
    /\ body.title.k = "string"
    /\ body.genre.k = "string"
    /\ body.year.k = "number"
    /\ strictInt => body.year.t % 10 = 0

\* InsertMovieSchemaParse without omit({ id: true }): the id stays in the result
InsertMovieSchemaParse_WithId(body) ==
    [title |-> body.title.s, year |-> body.year, genre |-> body.genre.s, id |-> body.id]

\* the parsed object has the keys of the schema only
InsertMovieSchemaParse(body) ==
    [title |-> body.title.s, year |-> body.year, genre |-> body.genre.s]

\* IsValidYear without year > new Date().getFullYear()
IsValidYear_NoUpper(year, thisYear) == IsInteger(year) /\ year.t >= 10 * MinYear

\* IsValidYear without !Number.isInteger(year)
IsValidYear_NoInteger(year, thisYear) ==
    ~year.nan /\ year.t >= 10 * MinYear /\ year.t <= 10 * thisYear

\* IsValidYear with the upper bound one year late
IsValidYear_NextYear(year, thisYear) ==
    IsInteger(year) /\ year.t >= 10 * MinYear /\ year.t <= 10 * (thisYear + 1)

\* !Number.isInteger(year) || year < 1888 || year > new Date().getFullYear(), negated
IsValidYear(year, thisYear) ==
    IsInteger(year) /\ year.t >= 10 * MinYear /\ year.t <= 10 * thisYear

\* CreateChecks with the year check on the raw body ahead of the parse
CreateChecks_YearFirst(q, strictInt, thisYear) ==
    IF ~IsValidYear(ToNumber(q.body.year), thisYear) THEN Respond(q, 400, "Invalid year")
    ELSE IF ~InsertMovieSchemaAccepts(q.body, strictInt)
         THEN Respond(q, 400, "Invalid fields")
         ELSE [q EXCEPT !.pc = "addMovie",
                        !.data = [title |-> q.body.title.s,
                                  year |-> ToNumber(q.body.year).t \div 10,
                                  genre |-> q.body.genre.s]]

\* the handler up to its first await: parse (ZodError: 400 Invalid fields), then
\* the year check, then the call of addMovie({ ...parsed, year })
CreateChecks(q, strictInt, thisYear) ==
    IF ~InsertMovieSchemaAccepts(q.body, strictInt)
    THEN Respond(q, 400, "Invalid fields")
    ELSE LET parsed == InsertMovieSchemaParse(q.body)
             year   == ToNumber(parsed.year)
         IN  IF ~IsValidYear(year, thisYear) THEN Respond(q, 400, "Invalid year")
             ELSE [q EXCEPT !.pc = "addMovie",
                            !.data = [parsed EXCEPT !.year = year.t \div 10]]

CreateRequest(r, body) ==
    /\ Arrives(r)
    /\ \E strictInt \in BOOLEAN :
          req' = [req EXCEPT ![r] =
                     CreateChecks([IdleReq EXCEPT !.ep = "create", !.body = body,
                                                  !.h.year = currentYear],
                                  strictInt, currentYear)]
    /\ UnchangedStore /\ UnchangedEnv

\* AddMovie with a check for a movie of the same title after the insert
AddMovie_RejectsDuplicate(r, t) ==
    /\ req[r].pc = "addMovie"
    /\ LET q == Called(req[r], "addMovie")
       IN  /\ movies' = InsertMovies(movies, <<q.data>>, t)
           /\ now' = t
           /\ req' = [req EXCEPT ![r] =
                         IF \E j \in 1..Len(movies) : movies[j].title = q.data.title
                         THEN Respond(q, 400, "Invalid fields")
                         ELSE [Respond(q, 201, "") EXCEPT !.movie = movies'[Len(movies')],
                                                         !.h.seen = Len(movies),
                                                         !.h.readLen = Len(ratings)]]
           /\ UNCHANGED ratings
    /\ UnchangedEnv

\* addMovie: db.insert(movies).values(data).returning(), the row stamped with the
\* time t; result[0] is the row inserted; res.status(201).json(movie)
AddMovie(r, t) ==
    /\ req[r].pc = "addMovie"
    /\ LET q == Called(req[r], "addMovie")
       IN  \/ /\ req' = [req EXCEPT ![r] = Fails(q, "Failed to add movie")]
              /\ UnchangedStore
           \/ /\ movies' = InsertMovies(movies, <<q.data>>, t)
              /\ now' = t
              /\ req' = [req EXCEPT ![r] =
                            [Respond(q, 201, "") EXCEPT
                                !.movie = movies'[Len(movies')],
                                !.h.seen = Len(movies),
                                !.h.readLen = Len(ratings)]]
              /\ UNCHANGED ratings
    /\ UnchangedEnv

(***************************************************************************)
(* GET /api/movies/:id                                                     *)
(***************************************************************************)
\* the handler up to its first await: const id = Number(req.params.id); isNaN(id)
DetailChecks(q) ==
    LET id == ToNumber(JsStr(q.idParam))
    IN  IF id.nan THEN Respond(q, 400, "Invalid ID")
        ELSE [q EXCEPT !.pc = "detail_getMovieById", !.id = id]

DetailRequest(r, idParam) ==
    /\ Arrives(r)
    /\ req' = [req EXCEPT ![r] =
                  DetailChecks([IdleReq EXCEPT !.ep = "detail", !.idParam = idParam])]
    /\ UnchangedStore /\ UnchangedEnv

\* const movie = await storage.getMovieById(id); if (!movie) 404.  The statement
\* is refused when the parameter for the integer column is no integer.
DetailGetMovieById(r) ==
    /\ req[r].pc = "detail_getMovieById"
    /\ LET q == [Called(req[r], "getMovieById") EXCEPT !.h.seen = Len(movies),
                                                       !.h.prior = Len(ratings)]
       IN  \/ req' = [req EXCEPT ![r] = Fails(q, "Failed to fetch movie")]
           \/ /\ ~IsIntegerParam(q.id)
              /\ req' = [req EXCEPT ![r] = Rejects(q, "Failed to fetch movie")]
           \/ /\ IsIntegerParam(q.id)
              /\ LET m == GetMovieById(q.id.t \div 10)
                 IN  req' = [req EXCEPT ![r] =
                               IF m.found
                               THEN [q EXCEPT !.pc = "getRatingsForMovie", !.movie = m.row]
                               ELSE Respond(q, 404, "Not found")]
    /\ UnchangedStore /\ UnchangedEnv

\* const ratingScores = await storage.getRatingsForMovie(id); the average;
\* res.json({ ...movie, avgRating, totalRatings, ratings })
DetailGetRatings(r) ==
    /\ req[r].pc = "getRatingsForMovie"
    /\ LET q == Called(req[r], "getRatingsForMovie")
       IN  \/ req' = [req EXCEPT ![r] = Fails(q, "Failed to fetch movie")]
           \/ \E tie \in TieOrders :
                 LET ratingScores == GetRatingsForMovie(q.id.t \div 10, tie)
                 IN  req' = [req EXCEPT ![r] =
                               [Respond(q, 200, "") EXCEPT
                                   !.avgRating = JsAverage(ratingScores),
                                   !.totalRatings = Len(ratingScores),
                                   !.ratings = ratingScores,
                                   !.h.order = RatingIdsNewestFirst(q.id.t \div 10, tie),
                                   !.h.readLen = Len(ratings)]]
    /\ UnchangedStore /\ UnchangedEnv

(***************************************************************************)
(* POST /api/movies/:id/rate                                               *)
(***************************************************************************)
MinRating == 1
MaxRating == 5

\* IsValidRating without score > 5
IsValidRating_NoUpper(score) == IsInteger(score) /\ score.t >= 10 * MinRating

\* IsValidRating with score < 0 for score < 1
IsValidRating_FromZero(score) ==
    IsInteger(score) /\ score.t >= 0 /\ score.t <= 10 * MaxRating

\* !Number.isInteger(score) || score < 1 || score > 5, negated
IsValidRating(score) ==
    IsInteger(score) /\ score.t >= 10 * MinRating /\ score.t <= 10 * MaxRating

\* RateChecks with the score check ahead of the id check
RateChecks_ScoreFirst(q) ==
    LET id    == ToNumber(JsStr(q.idParam))
        score == ToNumber(q.body.score)
    IN  IF ~IsValidRating(score) THEN Respond(q, 400, "Invalid rating")
        ELSE IF id.nan THEN Respond(q, 400, "Invalid ID")
        ELSE [q EXCEPT !.pc = "rate_getMovieById", !.id = id, !.score = score.t \div 10]

\* the handler up to its first await: both coercions, then the id check, then
\* the score check
RateChecks(q) ==
    LET id    == ToNumber(JsStr(q.idParam))
        score == ToNumber(q.body.score)
    IN  IF id.nan THEN Respond(q, 400, "Invalid ID")
        ELSE IF ~IsValidRating(score) THEN Respond(q, 400, "Invalid rating")
        ELSE [q EXCEPT !.pc = "rate_getMovieById", !.id = id, !.score = score.t \div 10]

RateRequest(r, idParam, score) ==
    /\ Arrives(r)
    /\ req' = [req EXCEPT ![r] =
                  RateChecks([IdleReq EXCEPT !.ep = "rate", !.idParam = idParam,
                                             !.body.score = score])]
    /\ UnchangedStore /\ UnchangedEnv

\* RateAfterLookup without if (!movie)
RateAfterLookup_NoCheck(q, m) == [q EXCEPT !.pc = "addRating_insert", !.movie = m.row]

\* what the handler does with the row getMovieById found or did not find
RateAfterLookup(q, m) ==
    IF m.found
    THEN [q EXCEPT !.pc = "addRating_insert", !.movie = m.row]
    ELSE Respond(q, 404, "Not found")

\* const movie = await storage.getMovieById(id); if (!movie) 404
RateGetMovieById(r) ==
    /\ req[r].pc = "rate_getMovieById"
    /\ LET q == Called(req[r], "getMovieById")
       IN  \/ req' = [req EXCEPT ![r] = Fails(q, "Failed to add rating")]
           \/ /\ ~IsIntegerParam(q.id)
              /\ req' = [req EXCEPT ![r] = Rejects(q, "Failed to add rating")]
           \/ /\ IsIntegerParam(q.id)
              /\ req' = [req EXCEPT ![r] = RateAfterLookup(q, GetMovieById(q.id.t \div 10))]
    /\ UnchangedStore /\ UnchangedEnv

\* addRating, first statement: await db.insert(ratings).values({ movieId, score }),
\* the row stamped with the time t
AddRatingInsert(r, t) ==
    /\ req[r].pc = "addRating_insert"
    /\ LET q   == Called(req[r], "addRating")
           mid == q.id.t \div 10
       IN  \/ /\ req' = [req EXCEPT ![r] = Fails(q, "Failed to add rating")]
              /\ UnchangedStore
           \/ /\ ForeignKeyHolds(mid)
              /\ ratings' = InsertRatings(ratings, <<[movieId |-> mid, score |-> q.score]>>, t)
              /\ now' = t
              /\ req' = [req EXCEPT ![r] =
                            [q EXCEPT !.pc = "addRating_select",
                                      !.h.prior = Len(SelectSeqBy(ratings, mid)),
                                      !.h.row = Len(ratings) + 1]]
              /\ UNCHANGED movies
    /\ UnchangedEnv

\* AddRatingSelect reading the table as it was before the insert of this call
AddRatingSelect_Stale(r) ==
    /\ req[r].pc = "addRating_select"
    /\ LET q == req[r]
       IN  \/ req' = [req EXCEPT ![r] = Fails(q, "Failed to add rating")]
           \/ LET result == SelectAggregate(SubSeq(ratings, 1, q.h.row - 1), q.id.t \div 10)
              IN  req' = [req EXCEPT ![r] =
                            [Respond(q, 200, "") EXCEPT
                                !.avgRating = result.avgRating,
                                !.totalRatings = result.totalRatings,
                                !.h.readLen = Len(ratings)]]
    /\ UnchangedStore /\ UnchangedEnv

\* AddRatingSelect inside a transaction with the insert: a failure of the read
\* takes the inserted row back
AddRatingSelect_Rollback(r) ==
    /\ req[r].pc = "addRating_select"
    /\ LET q == req[r]
       IN  \/ /\ req' = [req EXCEPT ![r] = Fails(q, "Failed to add rating")]
              /\ ratings' = SelectSeq(ratings, LAMBDA row : row.id # q.h.row)
              /\ UNCHANGED <<movies, now>>
           \/ /\ LET result == SelectAggregate(ratings, q.id.t \div 10)
                 IN  req' = [req EXCEPT ![r] =
                               [Respond(q, 200, "") EXCEPT
                                   !.avgRating = result.avgRating,
                                   !.totalRatings = result.totalRatings,
                                   !.h.readLen = Len(ratings)]]
              /\ UnchangedStore
    /\ UnchangedEnv

\* addRating, second statement and return; then res.json(result)
AddRatingSelect(r) ==
    /\ req[r].pc = "addRating_select"
    /\ LET q == req[r]
       IN  \/ req' = [req EXCEPT ![r] = Fails(q, "Failed to add rating")]
           \/ LET result == SelectAggregate(ratings, q.id.t \div 10)
              IN  req' = [req EXCEPT ![r] =
                            [Respond(q, 200, "") EXCEPT
                                !.avgRating = result.avgRating,
                                !.totalRatings = result.totalRatings,
                                !.h.readLen = Len(ratings)]]
    /\ UnchangedStore /\ UnchangedEnv

(***************************************************************************)
(* Specifications                                                          *)
(***************************************************************************)
Init ==
    /\ movies = <<>>
    /\ ratings = <<>>
    /\ now = 0
    /\ currentYear = BaseYear
    /\ seed = [p \in Proc |-> SeedIdle]
    /\ req = [r \in Req |-> IdleReq]

\* startup of the process the clients talk to: registerRoutes awaits seedMovies,
\* which may fail
Startup == seedMovies(Serving) \/ SeedThrows(Serving)

\* Concurrent rate requests: two movies, two valid scores and an invalid one,
\* and an id no movie has.  Nothing here reads createdAt, so every insert is
\* given a later time.
RaceIds == {"1", "2", "11"}
RaceScores == {JsNum(10), JsNum(50), JsNum(0)}

NextRate ==
    \/ Startup
    \/ \E r \in Req, idParam \in RaceIds, score \in RaceScores :
          RateRequest(r, idParam, score)
    \/ \E r \in Req : RateGetMovieById(r)
    \/ \E r \in Req, t \in LaterTime : AddRatingInsert(r, t)
    \/ \E r \in Req : AddRatingSelect(r)

SpecRate == Init /\ [][NextRate]_vars

\* One request at a time, each closed before the next arrives.
NoneInFlight == \A q \in Req : req[q].pc \in {"idle", "closed"}

\* Rate requests one after the other, with the path parameters and the scores
\* a client may send.
IdParams == {"1", "11", "1.5", "abc"}
ScoreInputs ==
    {JsNum(0), JsNum(10), JsNum(50), JsNum(60), JsNum(-10), JsNum(35), JsNull,
     JsUndefined, JsStr("great"), JsStr("3"), JsStr(""), JsTrue}

NextRateInputs ==
    \/ Startup
    \/ \E r \in Req, idParam \in IdParams, score \in ScoreInputs :
          NoneInFlight /\ RateRequest(r, idParam, score)
    \/ \E r \in Req : RateGetMovieById(r)
    \/ \E r \in Req, t \in LaterTime : AddRatingInsert(r, t)
    \/ \E r \in Req : AddRatingSelect(r)
    \/ \E r \in Req : Close(r)

SpecRateInputs == Init /\ [][NextRateInputs]_vars

\* Create requests one after the other, with the bodies a client may send, over
\* a turn of the year.
TitleInputs == {JsStr("Casablanca"), JsStr(""), JsUndefined}
GenreInputs == {JsStr("Drama"), JsStr("")}
YearInputs ==
    {JsNum(10 * (MinYear - 1)), JsNum(10 * MinYear), JsNum(10 * currentYear),
     JsNum(10 * (currentYear + 1)), JsNum(19995), JsStr("not a year"), JsUndefined}

CreateBodies ==
    {[NoBody EXCEPT !.title = t, !.year = y, !.genre = g] :
        t \in TitleInputs, y \in YearInputs, g \in GenreInputs}

NextCreateInputs ==
    \/ Startup
    \/ YearTick
    \/ \E r \in Req, body \in CreateBodies : NoneInFlight /\ CreateRequest(r, body)
    \/ \E r \in Req, t \in LaterTime : AddMovie(r, t)
    \/ \E r \in Req : Close(r)

SpecCreateInputs == Init /\ [][NextCreateInputs]_vars

\* All four endpoints, requests in flight together.
SomeBodies ==
    {[NoBody EXCEPT !.title = JsStr("Casablanca"), !.year = y, !.genre = JsStr("Drama")] :
        y \in {JsNum(19420), JsNum(10 * (MinYear - 1))}}
SomeIds == {"1", "11"}
SomeScores == {JsNum(50), JsNum(0)}

\* The seeded store after clients have rated the first movie up to MaxExtra
\* times, and then list, detail and rate requests one after the other.
ExtraScores == UNION {[1..n -> MinRating..MaxRating] : n \in 0..MaxExtra}

InitAverages ==
    /\ movies = InsertMovies(<<>>, seedData, 1)
    /\ \E extra \in ExtraScores :
          /\ ratings =
                InsertRatings(<<>>, sampleRatings(InsertMovies(<<>>, seedData, 1)), 2)
                \o [i \in 1..Len(extra) |->
                       RatingRow(Len(sampleSlots) + i, 1, extra[i], 2 + i)]
          /\ now = 2 + Len(extra)
    /\ currentYear = BaseYear
    /\ seed = [p \in Proc |->
                 IF p = Serving THEN [SeedIdle EXCEPT !.pc = "done", !.calls = 1]
                 ELSE SeedIdle]
    /\ req = [r \in Req |-> IdleReq]

NextAverages ==
    \/ \E r \in Req : NoneInFlight /\ ListRequest(r)
    \/ \E r \in Req : ListGetAllMovies(r)
    \/ \E r \in Req : NoneInFlight /\ DetailRequest(r, "1")
    \/ \E r \in Req : DetailGetMovieById(r)
    \/ \E r \in Req : DetailGetRatings(r)
    \/ \E r \in Req, score \in {JsNum(30), JsNum(50)} :
          NoneInFlight /\ RateRequest(r, "1", score)
    \/ \E r \in Req : RateGetMovieById(r)
    \/ \E r \in Req, t \in LaterTime : AddRatingInsert(r, t)
    \/ \E r \in Req : AddRatingSelect(r)
    \/ \E r \in Req : Close(r)

SpecAverages == InitAverages /\ [][NextAverages]_vars

\* no request is being handled: the clients wait for an answer before they send
\* the next request
NoneRunning == \A q \in Req : req[q].pc \in {"idle", "done"}

\* The same store, and ratings (of one star) and details of the first movie one
\* after the other, the answers kept.
NextNewest ==
    \/ \E r \in Req : NoneRunning /\ DetailRequest(r, "1")
    \/ \E r \in Req : DetailGetMovieById(r)
    \/ \E r \in Req : DetailGetRatings(r)
    \/ \E r \in Req : NoneRunning /\ RateRequest(r, "1", JsNum(10))
    \/ \E r \in Req : RateGetMovieById(r)
    \/ \E r \in Req, t \in LaterTime : AddRatingInsert(r, t)
    \/ \E r \in Req : AddRatingSelect(r)

SpecNewest == InitAverages /\ [][NextNewest]_vars

\* Create requests in flight together, their bodies with and without an id and
\* a key the schema does not know.
IdInputs == {JsUndefined, JsNum(10), JsNum(9990)}
DirectorInputs == {JsUndefined, JsStr("Michael Curtiz")}
BodiesWithIds ==
    {[NoBody EXCEPT !.title = JsStr("Casablanca"), !.year = JsNum(19420),
                    !.genre = JsStr("Drama"), !.id = i, !.director = d] :
        i \in IdInputs, d \in DirectorInputs}

NextCreateIds ==
    \/ Startup
    \/ \E r \in Req, body \in BodiesWithIds : CreateRequest(r, body)
    \/ \E r \in Req, t \in LaterTime : AddMovie(r, t)

SpecCreateIds == Init /\ [][NextCreateIds]_vars

\* a call of seedMovies is between its first and its last statement
SeedInFlight(p) == seed[p].pc \in {"insertMovies", "selectAll", "insertRatings"}

\* The processes start one after the other on the one database, each calling
\* seedMovies when no other call is under way (SeedTurn), while clients create
\* movies through the first.
SeedTurn(p) == \A o \in Proc \ {p} : ~SeedInFlight(o)

NextSeedTwice ==
    \/ \E p \in Proc : SeedTurn(p) /\ seedMovies(p)
    \/ \E p \in Proc : SeedTurn(p) /\ SeedThrows(p)
    \/ \E r \in Req, body \in SomeBodies : CreateRequest(r, body)
    \/ \E r \in Req, t \in LaterTime : AddMovie(r, t)

SpecSeedTwice == Init /\ [][NextSeedTwice]_vars

\* The processes start at any time, their calls of seedMovies interleaved
\* statement by statement.
NextSeed ==
    \/ \E p \in Proc : seedMovies(p)
    \/ \E p \in Proc : SeedThrows(p)

SpecSeed == Init /\ [][NextSeed]_vars

\* Detail requests with the path parameters a client may send, in flight
\* together with create requests, so that the id 11 names a movie or not.
NextDetailInputs ==
    \/ Startup
    \/ \E r \in Req, idParam \in IdParams : DetailRequest(r, idParam)
    \/ \E r \in Req : DetailGetMovieById(r)
    \/ \E r \in Req : DetailGetRatings(r)
    \/ \E r \in Req, body \in SomeBodies : CreateRequest(r, body)
    \/ \E r \in Req, t \in LaterTime : AddMovie(r, t)

SpecDetailInputs == Init /\ [][NextDetailInputs]_vars

Next ==
    \/ Startup
    \/ \E r \in Req : ListRequest(r)
    \/ \E r \in Req : ListGetAllMovies(r)
    \/ \E r \in Req, body \in SomeBodies : CreateRequest(r, body)
    \/ \E r \in Req, t \in StampTimes : AddMovie(r, t)
    \/ \E r \in Req, idParam \in SomeIds : DetailRequest(r, idParam)
    \/ \E r \in Req : DetailGetMovieById(r)
    \/ \E r \in Req : DetailGetRatings(r)
    \/ \E r \in Req, idParam \in SomeIds, score \in SomeScores :
          RateRequest(r, idParam, score)
    \/ \E r \in Req : RateGetMovieById(r)
    \/ \E r \in Req, t \in StampTimes : AddRatingInsert(r, t)
    \/ \E r \in Req : AddRatingSelect(r)

Spec == Init /\ [][Next]_vars

\* the store operation that the handler of request r awaits returns or throws
Handle(r) ==
    \/ ListGetAllMovies(r)
    \/ \E t \in LaterTime : AddMovie(r, t)
    \/ DetailGetMovieById(r)
    \/ DetailGetRatings(r)
    \/ RateGetMovieById(r)
    \/ \E t \in LaterTime : AddRatingInsert(r, t)
    \/ AddRatingSelect(r)

\* The seeded store with the startup over
InitLive ==
    /\ movies = InsertMovies(<<>>, seedData, 1)
    /\ ratings = InsertRatings(<<>>, sampleRatings(InsertMovies(<<>>, seedData, 1)), 2)
    /\ now = 2
    /\ currentYear = BaseYear
    /\ seed = [p \in Proc |->
                 IF p = Serving THEN [SeedIdle EXCEPT !.pc = "done", !.calls = 1]
                 ELSE SeedIdle]
    /\ req = [r \in Req |-> IdleReq]

\* All four endpoints, requests in flight together, every store operation
\* returning or throwing in the end.
NextLive ==
    \/ \E r \in Req : ListRequest(r)
    \/ \E r \in Req, body \in SomeBodies : CreateRequest(r, body)
    \/ \E r \in Req, idParam \in SomeIds : DetailRequest(r, idParam)
    \/ \E r \in Req, idParam \in SomeIds, score \in SomeScores :
          RateRequest(r, idParam, score)
    \/ \E r \in Req : Handle(r)

SpecLive == InitLive /\ [][NextLive]_vars /\ \A r \in Req : WF_vars(Handle(r))

(***************************************************************************)
(* Properties                                                              *)
(***************************************************************************)
\* the mean of the scores to one decimal, in tenths: the a with
\* a - 1/2 <= 10 * sum / n < a + 1/2 (one of the two integers around 10 * sum / n),
\* and 0 for no scores
Mean1(scores) ==
    IF scores = <<>> THEN 0
    ELSE LET n == Len(scores)
             sum == SumSeq(scores)
             lo == (10 * sum) \div n
         IN  CHOOSE a \in {lo, lo + 1} : 2 * a * n - n <= 20 * sum /\ 20 * sum < 2 * a * n + n

Answered(r, ep) == req[r].ep = ep /\ req[r].pc = "done"

\* the movie id a request names, once its handler has taken it for a number
MovieIdOf(q) == q.id.t \div 10

\* the ratings of the request's movie among the first n rows of the table
RatingsAmong(q, n) == SelectSeqBy(SubSeq(ratings, 1, n), MovieIdOf(q))

\* the request names a stored movie and carries an integer score in 1..5
RatesStoredMovie(q) ==
    /\ q.body.score \in {JsNum(10), JsNum(20), JsNum(30), JsNum(40), JsNum(50)}
    /\ \E i \in 1..Len(movies) : 10 * movies[i].id = q.id.t

\* C1 (as stated): every submit-rating request on an existing movie with an integer
\* score in 1..5, no store operation failing, is answered 200 with totalRatings
\* exactly one more than the movie's ratings immediately before its insert, and
\* avgRating the one-decimal mean of exactly those prior scores plus the new one.
C1_ExactlyOneMore ==
    \A r \in Req :
        LET q == req[r]
        IN  (Answered(r, "rate") /\ RatesStoredMovie(q) /\ q.status # 500) =>
               /\ q.status = 200
               /\ q.totalRatings = q.h.prior + 1
               /\ q.avgRating = Mean1(ScoresOf(RatingsAmong(q, q.h.row)))

\* C1 (amended): such a request is answered 200 with totalRatings the number of
\* the movie's ratings stored when the aggregate is read, which is one more than
\* before its insert plus the ratings other requests inserted for the same movie
\* between its insert and its read; avgRating is the one-decimal mean of exactly
\* the scores stored at the read.
C1_CountsRowsAtRead ==
    \A r \in Req :
        LET q == req[r]
        IN  (Answered(r, "rate") /\ RatesStoredMovie(q) /\ q.status # 500) =>
               /\ q.status = 200
               /\ q.totalRatings = Len(RatingsAmong(q, q.h.readLen))
               /\ q.totalRatings =
                     q.h.prior + 1
                     + Cardinality({i \in (q.h.row + 1)..q.h.readLen :
                                        ratings[i].movieId = MovieIdOf(q)})
               /\ q.avgRating = Mean1(ScoresOf(RatingsAmong(q, q.h.readLen)))

\* a request answered with a count that includes another request's rating
C1_Witness ==
    \E r \in Req :
        /\ Answered(r, "rate") /\ req[r].status = 200
        /\ req[r].totalRatings = req[r].h.prior + 2

\* C2: the aggregate addRating returns counts the rating this call inserted:
\* totalRatings >= 1, totalRatings >= (ratings of the movie before the insert) + 1,
\* and the average is that of a set of rows that contains the inserted row.
C2_ReadYourWrite ==
    \A r \in Req :
        LET q == req[r]
        IN  (Answered(r, "rate") /\ q.status = 200) =>
               /\ q.totalRatings >= 1
               /\ q.totalRatings >= q.h.prior + 1
               /\ q.h.row \in 1..q.h.readLen
               /\ ratings[q.h.row].movieId = MovieIdOf(q)
               /\ ratings[q.h.row].score = q.score
               /\ \E n \in q.h.row..Len(ratings) :
                     /\ q.totalRatings = Len(RatingsAmong(q, n))
                     /\ q.avgRating = Mean1(ScoresOf(RatingsAmong(q, n)))

\* a request answered after another request inserted a rating for another movie
C2_Witness ==
    \E r \in Req :
        /\ Answered(r, "rate") /\ req[r].status = 200
        /\ req[r].h.readLen > req[r].h.row
        /\ req[r].totalRatings = req[r].h.prior + 1

\* C3: every stored rating's movieId is the id of a stored movie, and addRating is
\* called only for a movie that getMovieById found.
C3_RatingsReferenceMovies ==
    /\ \A i \in 1..Len(ratings) : \E j \in 1..Len(movies) : movies[j].id = ratings[i].movieId
    /\ \A r \in Req :
          "addRating" \in req[r].h.calls =>
              /\ 10 * req[r].movie.id = req[r].id.t
              /\ \E j \in 1..Len(movies) : movies[j] = req[r].movie

\* a rating of a movie that a create request added
C3_Witness ==
    \E i \in 1..Len(ratings), r \in Req :
        /\ ratings[i].movieId > Len(seedData)
        /\ Answered(r, "create") /\ req[r].movie.id = ratings[i].movieId

\* what the clients send, as the specification sorts it
NonNumericIds == {"abc"}
AcceptedScores == {JsNum(10), JsNum(50), JsStr("3"), JsTrue}
RejectedScores ==
    {JsNum(0), JsNum(60), JsNum(-10), JsNum(35), JsNull, JsUndefined, JsStr("great"),
     JsStr("")}
StoredScore(v) ==
    CASE v = JsNum(10) -> 1 [] v = JsNum(50) -> 5 [] v = JsStr("3") -> 3 [] v = JsTrue -> 1

\* C4: the submit-rating handler checks id, then score, then existence: a
\* non-numeric id is answered 400 "Invalid ID" whatever the score; a numeric id
\* with an invalid score 400 "Invalid rating" without a call of getMovieById; 404
\* "Not found" only a numeric id with a valid score for a movie that is not stored.
C4_RateCheckOrder ==
    \A r \in Req :
        LET q == req[r]
        IN  Answered(r, "rate") =>
               /\ q.idParam \in NonNumericIds =>
                     q.status = 400 /\ q.error = "Invalid ID" /\ q.h.calls = {}
               /\ (q.idParam \notin NonNumericIds /\ q.body.score \in RejectedScores) =>
                     q.status = 400 /\ q.error = "Invalid rating" /\ q.h.calls = {}
               /\ q.status = 404 =>
                     /\ q.error = "Not found"
                     /\ q.idParam \notin NonNumericIds
                     /\ q.body.score \in AcceptedScores
                     /\ ~\E j \in 1..Len(movies) : 10 * movies[j].id = q.id.t

\* a request wrong in its id and in its score
C4_Witness ==
    \E r \in Req :
        /\ Answered(r, "rate") /\ req[r].idParam = "abc" /\ req[r].body.score = JsNum(60)
        /\ req[r].error = "Invalid ID"

\* C5: a score is accepted exactly when its numeric coercion is an integer in
\* 1..5: 0, 6, -1, 3.5, null, a missing score and non-numeric strings are answered
\* 400 "Invalid rating" without a call of addRating; true is accepted and stored
\* as 1.
C5_ScoreAccepted ==
    \A r \in Req :
        LET q == req[r]
        IN  (Answered(r, "rate") /\ q.idParam \notin NonNumericIds) =>
               /\ q.body.score \in AcceptedScores \cup RejectedScores
               /\ q.body.score \in RejectedScores =>
                     /\ q.status = 400 /\ q.error = "Invalid rating"
                     /\ "addRating" \notin q.h.calls
               /\ q.body.score \in AcceptedScores =>
                     /\ q.error # "Invalid rating"
                     /\ q.score = StoredScore(q.body.score)
                     /\ q.status = 200 =>
                           /\ ratings[q.h.row].score = StoredScore(q.body.score)
                           /\ 10 * ratings[q.h.row].movieId = q.id.t

\* the score true, stored as 1
C5_Witness ==
    \E r \in Req :
        /\ Answered(r, "rate") /\ req[r].body.score = JsTrue /\ req[r].status = 200
        /\ ratings[req[r].h.row].score = 1

\* C6: every stored rating has an integer score in 1..5, be it from seedMovies or
\* from the submit-rating handler.
C6_ScoresInRange == \A i \in 1..Len(ratings) : ratings[i].score \in 1..5

\* the sample ratings and a rating from the handler, sent as the string "3"
C6_Witness ==
    /\ seed[Serving].pc = "done"
    /\ Len(ratings) = Len(sampleSlots) + 1
    /\ \E r \in Req : Answered(r, "rate") /\ req[r].body.score = JsStr("3")
                      /\ req[r].h.row = Len(ratings)

\* C7 (as stated): no stored movie has an empty title or genre; a create-movie
\* request with an empty title or genre is answered 400 without a call of addMovie.
C7_NoEmptyTitleOrGenre ==
    /\ \A i \in 1..Len(movies) : movies[i].title # "" /\ movies[i].genre # ""
    /\ \A r \in Req :
          (Answered(r, "create")
              /\ (req[r].body.title = JsStr("") \/ req[r].body.genre = JsStr(""))) =>
             req[r].status = 400 /\ "addMovie" \notin req[r].h.calls

\* the body is of the shape the insert schema wants
WellFormed(body) ==
    body.title.k = "string" /\ body.genre.k = "string" /\ body.year.k = "number"

\* C8: a create-movie request that passes the schema check is accepted (addMovie
\* called, 201 unless the store fails) exactly when its year is an integer y with
\* 1888 <= y <= the calendar year at the time of the request; otherwise it is
\* answered 400 "Invalid year" without a call of addMovie.
C8_YearRange ==
    \A r \in Req :
        LET q  == req[r]
            y  == q.body.year.t
            ok == y % 10 = 0 /\ 18880 <= y /\ y <= 10 * q.h.year
        IN  (Answered(r, "create") /\ q.error # "Invalid fields") =>
               /\ ok <=> "addMovie" \in q.h.calls
               /\ ok => \/ q.status = 201 /\ movies[q.movie.id].year * 10 = y
                        \/ q.status = 500 /\ q.error = "Failed to add movie"
               /\ ~ok => q.status = 400 /\ q.error = "Invalid year"

\* a movie of the new year, accepted after the turn of the year
C8_Witness ==
    \E r \in Req :
        /\ Answered(r, "create") /\ req[r].status = 201
        /\ req[r].h.year = BaseYear + 1
        /\ req[r].body.year = JsNum(10 * (BaseYear + 1))

\* C9: the schema check runs before the year check: a body that fails the schema
\* is answered 400 "Invalid fields" whatever its year, and "Invalid year" is
\* returned only for bodies that pass the schema.
C9_SchemaBeforeYear ==
    \A r \in Req :
        LET q == req[r]
        IN  Answered(r, "create") =>
               /\ ~WellFormed(q.body) =>
                     q.status = 400 /\ q.error = "Invalid fields" /\ q.h.calls = {}
               /\ q.error = "Invalid year" => WellFormed(q.body)

\* a body without a title and with the year 1887
C9_Witness ==
    \E r \in Req :
        /\ Answered(r, "create")
        /\ req[r].body.title = JsUndefined /\ req[r].body.year = JsNum(18870)
        /\ req[r].error = "Invalid fields"

\* C10: a successful create-movie request returns 201 with the submitted title,
\* year and genre, an id and a timestamp from the store; the movie is stored
\* unchanged and without ratings; a later detail of that id shows the same movie
\* (with avgRating 0, totalRatings 0 and no ratings as long as nobody rated it) and
\* a later list contains it.
C10_CreatedIsRetrievable ==
    \A c \in Req :
        LET q == req[c]
        IN  (Answered(c, "create") /\ q.status = 201) =>
               /\ q.movie.title = q.body.title.s
               /\ 10 * q.movie.year = q.body.year.t
               /\ q.movie.genre = q.body.genre.s
               /\ q.movie.id \in 1..Len(movies)
               /\ q.movie.createdAt \in 1..now
               /\ movies[q.movie.id] = q.movie
               /\ \A j \in 1..Len(movies) : movies[j].id = q.movie.id => j = q.movie.id
               /\ SelectSeqBy(SubSeq(ratings, 1, q.h.readLen), q.movie.id) = <<>>
               /\ \A d \in Req :
                     (Answered(d, "detail") /\ req[d].status = 200
                         /\ req[d].id.t = 10 * q.movie.id) =>
                        /\ req[d].movie = q.movie
                        /\ SelectSeqBy(SubSeq(ratings, 1, req[d].h.readLen), q.movie.id) = <<>>
                              => /\ req[d].avgRating = 0
                                 /\ req[d].totalRatings = 0
                                 /\ req[d].ratings = <<>>
               /\ \A l \in Req :
                     (Answered(l, "list") /\ req[l].status = 200
                         /\ req[l].h.seen >= q.movie.id) =>
                        \E i \in 1..Len(req[l].list) :
                            /\ req[l].list[i].id = q.movie.id
                            /\ req[l].list[i].title = q.movie.title
                            /\ req[l].list[i].year = q.movie.year
                            /\ req[l].list[i].genre = q.movie.genre

\* a created movie and its detail, unrated
C10_Witness ==
    \E c \in Req, d \in Req :
        /\ Answered(c, "create") /\ req[c].status = 201
        /\ Answered(d, "detail") /\ req[d].status = 200
        /\ req[d].movie = req[c].movie
        /\ req[d].totalRatings = 0 /\ req[d].ratings = <<>>

\* the ratings of movie id among the first n rows of the table
RatingsOfAmong(id, n) == SelectSeqBy(SubSeq(ratings, 1, n), id)

\* C11: getAllMovies returns exactly one entry per stored movie, none dropped and
\* none twice, with totalRatings the number of stored ratings of that movie and
\* avgRating their mean to one decimal; a movie without ratings has 0 and 0.
C11_OneEntryPerMovie ==
    \A l \in Req :
        LET q == req[l]
        IN  (Answered(l, "list") /\ q.status = 200) =>
               /\ Len(q.list) = q.h.seen
               /\ \A j \in 1..q.h.seen :
                     \E i \in 1..Len(q.list) :
                         LET e  == q.list[i]
                             rs == RatingsOfAmong(j, q.h.readLen)
                         IN  /\ e.id = movies[j].id
                             /\ \A k \in 1..Len(q.list) : q.list[k].id = e.id => k = i
                             /\ e.title = movies[j].title /\ e.year = movies[j].year
                             /\ e.genre = movies[j].genre
                             /\ e.createdAt = movies[j].createdAt
                             /\ e.totalRatings = Len(rs)
                             /\ e.avgRating = Mean1(ScoresOf(rs))
                             /\ rs = <<>> => e.avgRating = 0 /\ e.totalRatings = 0

\* a list with a movie nobody rated next to the rated ones
C11_Witness ==
    \E l \in Req :
        /\ Answered(l, "list") /\ req[l].status = 200
        /\ Len(req[l].list) = Len(seedData) + 1
        /\ \E i \in 1..Len(req[l].list) :
              req[l].list[i].totalRatings = 0 /\ req[l].list[i].avgRating = 0
        /\ \E i \in 1..Len(req[l].list) : req[l].list[i].avgRating = 47

\* C12: the list of getAllMovies is in ascending order of title: of two
\* consecutive entries the first title is not greater than the second, whatever
\* the order in which the movies were created.
C12_SortedByTitle ==
    \A l \in Req :
        (Answered(l, "list") /\ req[l].status = 200) =>
           \A i \in 1..(Len(req[l].list) - 1) :
               TitleRank(req[l].list[i].title) <= TitleRank(req[l].list[i + 1].title)

\* a list in which the movie created last stands before movies created earlier
C12_Witness ==
    \E l \in Req :
        /\ Answered(l, "list") /\ req[l].status = 200
        /\ \E i \in 1..(Len(req[l].list) - 1) :
              /\ req[l].list[i].id = Len(seedData) + 1
              /\ req[l].list[i + 1].id <= Len(seedData)

\* how often the score v occurs in the sequence of scores
Occurrences(scores, v) == Cardinality({i \in 1..Len(scores) : scores[i] = v})

\* C13: a get-detail request for a movie that is stored is answered 200 (unless
\* the store fails) with the movie's fields, the array of the movie's individual
\* scores, totalRatings the length of that array and avgRating the one-decimal
\* mean of that array, 0 when it is empty; also when ratings are inserted while
\* the request is in flight.
C13_DetailOfOneArray ==
    \A d \in Req :
        LET q      == req[d]
            stored == RatingsOfAmong(MovieIdOf(q), q.h.readLen)
        IN  (Answered(d, "detail") /\ "getMovieById" \in q.h.calls /\ q.status # 500
                /\ MovieIdOf(q) \in 1..q.h.seen) =>
               /\ q.status = 200
               /\ q.movie = movies[MovieIdOf(q)]
               /\ Len(q.ratings) = Len(stored)
               /\ \A v \in MinRating..MaxRating :
                     Occurrences(q.ratings, v) = Occurrences(ScoresOf(stored), v)
               /\ q.totalRatings = Len(q.ratings)
               /\ q.avgRating = Mean1(q.ratings)
               /\ q.ratings = <<>> => q.avgRating = 0

\* a detail that read the rating of a request still in flight, inserted after the
\* detail had looked up its movie; the mean 4.75 shows as 4.8
C13_Witness ==
    \E d \in Req, r \in Req :
        /\ Answered(d, "detail") /\ req[d].status = 200
        /\ req[r].ep = "rate" /\ req[r].pc = "addRating_select"
        /\ req[r].id = req[d].id
        /\ req[d].h.prior < req[r].h.row /\ req[r].h.row <= req[d].h.readLen
        /\ req[d].ratings = <<5, 4, 5, 5>> /\ req[d].totalRatings = 4
        /\ req[d].avgRating = 48

\* C14 (as stated): the get-detail handler answers 400 "Invalid ID" for a
\* non-numeric id without calling the store, and 404 "Not found" for a numeric id
\* that no stored movie has (the store itself being up) without calling
\* getRatingsForMovie; the id check precedes the lookup.
C14_DetailCheckOrder ==
    \A d \in Req :
        LET q == req[d]
        IN  Answered(d, "detail") =>
               /\ q.idParam \in NonNumericIds =>
                     q.status = 400 /\ q.error = "Invalid ID" /\ q.h.calls = {}
               /\ q.error = "Invalid ID" => q.h.calls = {}
               /\ (/\ q.idParam \notin NonNumericIds
                   /\ q.h.fault # "store"
                   /\ ~\E j \in 1..q.h.seen : 10 * movies[j].id = q.id.t) =>
                     /\ q.status = 404 /\ q.error = "Not found"
                     /\ "getRatingsForMovie" \notin q.h.calls

\* the rows of the store that are a copy of catalog entry i
CopiesOf(i) ==
    {j \in 1..Len(movies) :
        /\ movies[j].title = seedData[i].title
        /\ movies[j].year = seedData[i].year
        /\ movies[j].genre = seedData[i].genre}

\* the movies the create-movie requests stored
CreatedIds == {req[r].movie.id : r \in {c \in Req : Answered(c, "create") /\ req[c].status = 201}}

\* C15: seedMovies is idempotent over calls that follow one another: once one or
\* more calls have returned (none having failed) on a store that was empty at
\* first, the store holds exactly the 10 catalog movies and the 23 sample ratings
\* next to what the clients created; a call that finds any movie, seeded or
\* created by a client, inserts nothing.
C15_SeedIdempotent ==
    ((\A p \in Proc : seed[p].pc \in {"check", "done"}) /\ (\E p \in Proc : seed[p].pc = "done")) =>
        /\ \A i \in 1..Len(seedData) : CopiesOf(i) = {i}
        /\ Len(movies) = Len(seedData) + Cardinality(CreatedIds)
        /\ \A j \in 1..Len(movies) : j > Len(seedData) => j \in CreatedIds
        /\ Len(ratings) = Len(sampleSlots)
        /\ \A k \in 1..Len(ratings) :
              /\ ratings[k].score = sampleSlots[k][2]
              /\ ratings[k].movieId \in 1..Len(seedData)
        /\ Cardinality({p \in Proc : seed[p].pc = "done" /\ seed[p].seen = 0}) = 1

\* two calls returned, the second on a store that held the catalog and a movie a
\* client had created
C15_Witness ==
    \E p \in Proc, o \in Proc :
        /\ seed[p].pc = "done" /\ seed[p].seen = 0
        /\ seed[o].pc = "done" /\ seed[o].seen = Len(seedData) + 1
        /\ Len(movies) = Len(seedData) + 1
        /\ Len(ratings) = Len(sampleSlots)

\* C16: seed before serve: no request is handled before the seedMovies call of
\* registerRoutes has returned; registerRoutes calls seedMovies exactly once before
\* it registers a route, and registers none if seedMovies fails.
C16_SeedBeforeServe ==
    /\ (\E r \in Req : req[r].pc # "idle") =>
          /\ seed[Serving].pc = "done" /\ seed[Serving].calls = 1
          /\ \A i \in 1..Len(seedData) : CopiesOf(i) # {}
    /\ seed[Serving].pc # "done" => \A r \in Req : req[r] = IdleReq
    /\ seed[Serving].calls <= 1

\* a request answered from the seeded store
C16_Witness ==
    \E r \in Req :
        /\ Answered(r, "list") /\ req[r].status = 200
        /\ Len(req[r].list) = Len(seedData)
        /\ seed[Serving].pc = "done" /\ seed[Serving].calls = 1

\* C20 (as stated): under any interleaving of seedMovies calls, two that overlap
\* on an empty store among them, the catalog is inserted at most once: the store
\* never holds more than one copy of the 10 seed movies.
C20_CatalogAtMostOnce ==
    \A i \in 1..Len(seedData) : Cardinality(CopiesOf(i)) <= 1

\* C17: movies and ratings are append-only: a row that is in the store stays,
\* with the same values in all its fields, createdAt among them, in every later
\* state; no step updates or deletes a row.
C17_AppendOnly ==
    [][ /\ Len(movies') >= Len(movies)
        /\ \A i \in 1..Len(movies) : movies'[i] = movies[i]
        /\ Len(ratings') >= Len(ratings)
        /\ \A i \in 1..Len(ratings) : ratings'[i] = ratings[i] ]_vars

\* both tables have grown past the seed, the rating being one of a seeded movie
C17_Witness ==
    /\ Len(movies) > Len(seedData)
    /\ Len(ratings) > Len(sampleSlots)
    /\ ratings[Len(ratings)].movieId <= Len(seedData)
    /\ \A i \in 1..Len(seedData) : CopiesOf(i) = {i}

\* the message each handler's catch answers with
FixedMessage(ep) ==
    CASE ep = "list"   -> "Failed to fetch movies"
      [] ep = "create" -> "Failed to add movie"
      [] ep = "detail" -> "Failed to fetch movie"
      [] ep = "rate"   -> "Failed to add rating"

\* C18: whenever a store operation fails during a request, the handler answers 500
\* with exactly its fixed message ("Failed to fetch movies", "Failed to add
\* movie", "Failed to fetch movie", "Failed to add rating"), and the response
\* carries nothing else: no payload and nothing of the error that was thrown.
C18_FixedMessageOn500 ==
    \A r \in Req :
        LET q == req[r]
        IN  /\ q.h.fault # "" =>
                 /\ q.pc = "done" /\ q.status = 500
                 /\ q.error = FixedMessage(q.ep)
                 /\ q.error # ErrorDetail(q.h.fault)
                 /\ q.avgRating = 0 /\ q.totalRatings = 0
                 /\ q.ratings = <<>> /\ q.list = <<>>
                 /\ q.ep = "create" => q.movie = NoMovie
                 /\ q.h.calls # {}

\* a submit-rating request whose insert went through and whose aggregate read
\* failed
C18_Witness ==
    \E r \in Req :
        /\ Answered(r, "rate") /\ req[r].h.fault = "store"
        /\ req[r].h.row \in 1..Len(ratings)
        /\ ratings[req[r].h.row].movieId = MovieIdOf(req[r])
        /\ req[r].status = 500 /\ req[r].error = "Failed to add rating"

\* C19: an id that the client puts into a create-movie body never determines the
\* id of the stored movie: the schema drops id, and every other key it does not
\* know, before addMovie is called, so the stored id is the one the store assigns.
C19_ClientIdIgnored ==
    \A c \in Req :
        LET q == req[c]
        IN  /\ "addMovie" \in q.h.calls \/ q.pc = "addMovie" =>
                  DOMAIN q.data = {"title", "year", "genre"}
            /\ (Answered(c, "create") /\ q.status = 201) =>
                  /\ q.movie.id = q.h.seen + 1
                  /\ movies[q.h.seen + 1] = q.movie
                  /\ \A j \in 1..Len(movies) : movies[j].id = j
                  /\ q.body.id = JsNum(9990) => q.movie.id # 999

\* two movies created with the same id in their bodies, one with a director too
C19_Witness ==
    \E c \in Req, d \in Req :
        /\ c # d
        /\ Answered(c, "create") /\ req[c].status = 201
        /\ Answered(d, "create") /\ req[d].status = 201
        /\ req[c].body.id = JsNum(9990) /\ req[d].body.id = JsNum(9990)
        /\ req[c].body.director = JsStr("Michael Curtiz")
        /\ req[c].movie.id = Len(seedData) + 1 /\ req[d].movie.id = Len(seedData) + 2

\* the scores of movie id among the first n rows of the table
ScoresAmong(id, n) == ScoresOf(RatingsOfAmong(id, n))

\* C21: the three computations of the average agree: for every stored set of
\* ratings of a movie, the avgRating of getAllMovies, of the get-detail handler and
\* of addRating's aggregate are one value, round(sum / count * 10) / 10 with halves
\* rounded up, and 0 for the empty set (which addRating never reads).
C21_AveragesAgree ==
    /\ \A j \in 1..Len(movies) :
          LET scores == ScoresOf(SelectSeqBy(ratings, j))
          IN  /\ MovieWithStats(movies[j]).avgRating = Mean1(scores)
              /\ JsAverage(scores) = Mean1(scores)
              /\ scores # <<>> => SelectAggregate(ratings, j).avgRating = Mean1(scores)
    /\ \A r \in Req :
          LET q == req[r]
          IN  (q.pc = "done" /\ q.status = 200) =>
                 /\ q.ep = "list" =>
                       \A i \in 1..Len(q.list) :
                           q.list[i].avgRating = Mean1(ScoresAmong(q.list[i].id, q.h.readLen))
                 /\ q.ep \in {"detail", "rate"} =>
                       q.avgRating = Mean1(ScoresAmong(MovieIdOf(q), q.h.readLen))

\* a set of four scores with the mean 4.25, shown as 4.3 to a request that read it
C21_Witness ==
    /\ ScoresOf(SelectSeqBy(ratings, 1)) = <<5, 5, 4, 3>>
    /\ \E r \in Req :
          /\ req[r].pc = "done" /\ req[r].status = 200 /\ req[r].h.readLen = Len(ratings)
          /\ \/ req[r].ep = "list" /\ \E i \in 1..Len(req[r].list) :
                                          req[r].list[i].id = 1 /\ req[r].list[i].avgRating = 43
             \/ req[r].ep \in {"detail", "rate"} /\ req[r].avgRating = 43

\* C22: in every reachable state the year of every stored movie is an integer
\* between 1888 and the current calendar year; this goes on holding as the
\* calendar year advances, a year being admitted only when it does not exceed
\* the calendar year at the time of the request.
C22_StoredYearsInRange ==
    /\ \A j \in 1..Len(movies) : movies[j].year \in MinYear..currentYear
    /\ \A c \in Req :
          (Answered(c, "create") /\ req[c].status = 201) =>
             /\ 10 * movies[req[c].movie.id].year = req[c].body.year.t
             /\ movies[req[c].movie.id].year <= req[c].h.year
             /\ req[c].h.year <= currentYear

\* a movie of the old year and, after the turn of the year, one of the new year
C22_Witness ==
    /\ currentYear = BaseYear + 1
    /\ \E j \in 1..Len(movies), k \in 1..Len(movies) :
          movies[j].year = BaseYear /\ movies[k].year = BaseYear + 1

\* C24: every request answered 400 or 404 leaves the store unchanged: a request
\* changes the store only in a step of addMovie or addRating, and the
\* create-movie handler calls no addMovie, the submit-rating handler no
\* addRating, on a request it rejects.
C24_RejectedLeavesStore ==
    /\ [](\A r \in Req :
             req[r].status \in {400, 404} =>
                /\ req[r].h.calls \cap {"addMovie", "addRating"} = {}
                /\ req[r].h.row = 0)
    /\ [][\A r \in Req :
             (req'[r] # req[r] /\ (movies' # movies \/ ratings' # ratings)) =>
                req'[r].h.calls \cap {"addMovie", "addRating"} # {}]_vars

\* a rating rejected for its score and a rating of a movie that is not stored
C24_Witness ==
    \E a \in Req, b \in Req :
        /\ Answered(a, "rate") /\ req[a].status = 400 /\ req[a].error = "Invalid rating"
        /\ Answered(b, "rate") /\ req[b].status = 404
        /\ Len(movies) = Len(seedData) /\ Len(ratings) = Len(sampleSlots)

\* C25: a create-movie request with a numeric year that is no integer, such as
\* 1999.5, and a title and a genre that are strings, is answered 400 without a
\* call of addMovie.
C25_DecimalYearRejected ==
    \A c \in Req :
        LET q == req[c]
        IN  (q.ep = "create" /\ q.body.year = JsNum(19995)
                /\ q.body.title.k = "string" /\ q.body.genre.k = "string") =>
               /\ q.pc = "done" /\ q.status = 400
               /\ q.error \in {"Invalid fields", "Invalid year"}
               /\ q.h.calls = {}

\* the year 1999.5 with a title and a genre, turned down by the handler's own
\* check of the year
C25_Witness ==
    \E c \in Req :
        /\ Answered(c, "create") /\ req[c].body.year = JsNum(19995)
        /\ req[c].body.title = JsStr("Casablanca") /\ req[c].body.genre = JsStr("Drama")
        /\ req[c].status = 400 /\ req[c].error = "Invalid year"

\* C23: getRatingsForMovie returns the scores of all ratings of the movie, one
\* for each rating, the newest first: a rating created strictly later than
\* another never stands after it; so after a successful submit-rating with the
\* score s, nobody else writing, s is the first element of the detail's ratings.
C23_NewestFirst ==
    \A d \in Req :
        LET q    == req[d]
            rows == RatingsOfAmong(MovieIdOf(q), q.h.readLen)
            ord  == q.h.order
        IN  (Answered(d, "detail") /\ q.status = 200) =>
               /\ Len(q.ratings) = Len(rows) /\ Len(ord) = Len(rows)
               /\ {ord[i] : i \in 1..Len(ord)} = {rows[k].id : k \in 1..Len(rows)}
               /\ \A i \in 1..Len(ord) : q.ratings[i] = ratings[ord[i]].score
               /\ \A i \in 1..Len(ord), j \in 1..Len(ord) :
                     ratings[ord[i]].createdAt > ratings[ord[j]].createdAt => i < j
               /\ \A r \in Req :
                     (/\ Answered(r, "rate") /\ req[r].status = 200
                      /\ req[r].id = q.id
                      /\ req[r].h.row <= q.h.prior
                      /\ \A k \in 1..Len(rows) : rows[k].id <= req[r].h.row) =>
                        /\ q.ratings # <<>>
                        /\ q.ratings[1] = req[r].score

\* the score 1 given to a movie that had five ratings, and then first in its detail
C23_Witness ==
    \E r \in Req, d \in Req :
        /\ Answered(r, "rate") /\ req[r].status = 200 /\ req[r].score = 1
        /\ Answered(d, "detail") /\ req[d].status = 200 /\ req[d].id = req[r].id
        /\ req[d].totalRatings = 6
        /\ req[d].ratings[1] = 1 /\ req[d].ratings[2] = 5 /\ req[d].ratings[3] = 4

\* the requests that got past the checks of the submit-rating handler for movie m
RatersOf(m) == {r \in Req : req[r].ep = "rate" /\ req[r].pc # "idle" /\ req[r].id.t = 10 * m}

\* the sample ratings of movie m, its ratings before any request
InitialCount(m) ==
    Cardinality({k \in 1..Len(ratings) : k <= Len(sampleSlots) /\ ratings[k].movieId = m})

\* C26: no update is lost: when the submit-rating requests sent so far, all valid
\* and for stored movies, have been answered under any interleaving without a
\* failure of the store, all their ratings are stored: the count of each movie is
\* its initial count plus the number of requests for it, and the largest
\* totalRatings returned to a request for the movie is that final count.
C26_NoLostUpdates ==
    (/\ seed[Serving].pc = "done"
     /\ \A r \in Req : req[r].pc # "idle" => Answered(r, "rate") /\ req[r].status = 200) =>
        \A m \in 1..Len(movies) :
            LET final == Len(SelectSeqBy(ratings, m))
            IN  /\ final = InitialCount(m) + Cardinality(RatersOf(m))
                /\ \A r \in RatersOf(m) :
                      /\ ratings[req[r].h.row].movieId = m
                      /\ ratings[req[r].h.row].score = req[r].score
                      /\ req[r].totalRatings <= final
                /\ \A r \in RatersOf(m), o \in RatersOf(m) :
                      r # o => req[r].h.row # req[o].h.row
                /\ RatersOf(m) # {} =>
                      \E r \in RatersOf(m) : req[r].totalRatings = final

\* two ratings of the first movie, the one read before the other was inserted:
\* one request was told 4, the other 5
C26_Witness ==
    \E a \in Req, b \in Req :
        /\ Answered(a, "rate") /\ req[a].status = 200 /\ MovieIdOf(req[a]) = 1
        /\ Answered(b, "rate") /\ req[b].status = 200 /\ MovieIdOf(req[b]) = 1
        /\ req[a].totalRatings = 4 /\ req[b].totalRatings = 5
        /\ req[a].h.readLen < req[b].h.row
        /\ Len(SelectSeqBy(ratings, 1)) = 5

\* C27: in the submit-rating path the insert and the aggregate read are separate
\* steps: if the insert succeeds and the read after it fails, the handler answers
\* 500 "Failed to add rating" and the new rating stays stored; a 500 from
\* submit-rating does not say that the store is unchanged.
C27_InsertSurvivesFailedRead ==
    \A r \in Req :
        LET q == req[r]
        IN  (q.ep = "rate" /\ q.h.row > 0 /\ q.h.fault # "") =>
               /\ q.pc = "done" /\ q.status = 500 /\ q.error = "Failed to add rating"
               /\ q.h.row \in 1..Len(ratings)
               /\ ratings[q.h.row].id = q.h.row
               /\ ratings[q.h.row].movieId = MovieIdOf(q)
               /\ ratings[q.h.row].score = q.score
               /\ Len(SelectSeqBy(ratings, MovieIdOf(q))) >= q.h.prior + 1

\* a request answered 500 and the store one rating larger than the seed left it
C27_Witness ==
    \E r \in Req :
        /\ Answered(r, "rate") /\ req[r].status = 500
        /\ req[r].h.row = Len(sampleSlots) + 1
        /\ Len(ratings) = Len(sampleSlots) + 1
        /\ \A o \in Req \ {r} : req[o].pc = "idle"

\* C28: seedMovies inserts the movies and the sample ratings in two steps, guarded
\* by the check for a movie alone: if a call stops after the insert of the movies
\* and before the insert of the ratings, every later call is a no-op and the seed
\* movies stay without their sample ratings.
C28_HalfSeedStays ==
    \A p \in Proc :
        (seed[p].pc = "failed" /\ seed[p].failedAt \in {"selectAll", "insertRatings"}) =>
           /\ \A i \in 1..Len(seedData) : CopiesOf(i) = {i}
           /\ Len(movies) = Len(seedData) + Cardinality(CreatedIds)
           /\ ratings = <<>>
           /\ \A o \in Proc \ {p} :
                 /\ ~SeedInFlight(o)
                 /\ seed[o].pc = "done" => seed[o].seen >= Len(seedData)
                 /\ seed[o].pc = "failed" => seed[o].failedAt \in {"check", "insertMovies"}

\* a call stopped between its inserts, and a later call that found the movies
C28_Witness ==
    \E p \in Proc, o \in Proc :
        /\ seed[p].pc = "failed" /\ seed[p].failedAt = "selectAll"
        /\ seed[o].pc = "done" /\ seed[o].seen = Len(seedData)
        /\ Len(movies) = Len(seedData) /\ ratings = <<>>

\* an average (in tenths) and a count that fit each other and the range of scores
AggregateInRange(avgRating, totalRatings) ==
    /\ totalRatings >= 0
    /\ avgRating = 0 <=> totalRatings = 0
    /\ totalRatings > 0 => 10 * MinRating <= avgRating /\ avgRating <= 10 * MaxRating

\* C29: every aggregate the API returns fits the range of the scores: in a list
\* entry, a detail and a submit-rating response avgRating is 0 exactly when
\* totalRatings is 0, and from 1 to 5 otherwise; a submit-rating success has
\* totalRatings >= 1.
C29_AggregatesInRange ==
    \A r \in Req :
        LET q == req[r]
        IN  (q.pc = "done" /\ q.status = 200) =>
               /\ q.ep = "list" =>
                     \A i \in 1..Len(q.list) :
                         AggregateInRange(q.list[i].avgRating, q.list[i].totalRatings)
               /\ q.ep \in {"detail", "rate"} => AggregateInRange(q.avgRating, q.totalRatings)
               /\ q.ep = "rate" => q.totalRatings >= 1

\* a list with a movie nobody rated and a movie with nothing but fives
C29_Witness ==
    \E l \in Req :
        /\ Answered(l, "list") /\ req[l].status = 200
        /\ \E i \in 1..Len(req[l].list), j \in 1..Len(req[l].list) :
              /\ req[l].list[i].totalRatings = 0 /\ req[l].list[i].avgRating = 0
              /\ req[l].list[j].totalRatings = 3 /\ req[l].list[j].avgRating = 50

\* the statuses each endpoint answers with
StatusesOf(ep) ==
    CASE ep = "list"   -> {200, 500}
      [] ep = "create" -> {201, 400, 500}
      [] ep = "detail" -> {200, 400, 404, 500}
      [] ep = "rate"   -> {200, 400, 404, 500}

\* C30: every request to one of the four endpoints, each store operation it
\* invokes returning or throwing in the end, gets a response in the end, exactly
\* one, with a status of its endpoint: list 200 or 500; create 201, 400 or 500;
\* detail and rate 200, 400, 404 or 500; no handler sends a second response or
\* calls a store operation again after a failure.
C30_OneResponse ==
    /\ \A r \in Req : (req[r].pc # "idle") ~> (req[r].pc = "done")
    /\ [](\A r \in Req :
             /\ req[r].pc = "done" => req[r].status \in StatusesOf(req[r].ep)
             /\ req[r].pc \notin {"idle", "done"} => req[r].status = 0
             /\ req[r].h.fault # "" => req[r].pc = "done")
    /\ [][\A r \in Req :
             /\ req[r].pc = "done" => req'[r] = req[r]
             /\ (req'[r] # req[r] /\ req[r].pc \notin {"idle", "addRating_select"}) =>
                    /\ req[r].h.calls \subseteq req'[r].h.calls
                    /\ req'[r].h.calls # req[r].h.calls]_vars

\* all requests answered, one after a failure of its second store operation
C30_Witness ==
    /\ \A r \in Req : req[r].pc = "done" /\ req[r].status \in StatusesOf(req[r].ep)
    /\ \E r \in Req :
          /\ req[r].ep = "detail" /\ req[r].status = 500
          /\ req[r].h.calls = {"getMovieById", "getRatingsForMovie"}
    /\ \E r \in Req : req[r].ep = "create" /\ req[r].status = 201

====
